---- MODULE Spec2Model ----
(***************************************************************************)
(* The local request/response bridge: HttpService (the request ledger and  *)
(* the HTTP endpoint) together with ChatPanelProvider.showPrompt, the      *)
(* notifier the endpoint awaits.  All code runs on one event loop: every   *)
(* action below is one run-to-completion step between two suspension       *)
(* points of the source.                                                   *)
(***************************************************************************)
EXTENDS Integers, Sequences, FiniteSets, TLC

\* ---------------------------------------------------------------- bounds
MaxConn == 2        \* number of POST /request connections
MaxMsTicks == 1     \* single-millisecond steps of the clock
MaxResets == 1      \* times the surface is hidden (readiness latch resets)
MaxRoots == 2       \* workspace folders
MaxImages == 3      \* images of one submission
MaxSubmits == 2     \* submissions of the human

Conns == 1..MaxConn

\* ------------------------------------------------------- program constants
BASE_PORT == 34500
MAX_PORT_ATTEMPTS == 100
LONG_TEXT_THRESHOLD == 500
DEFAULT_REQUEST_TIMEOUT_MS == 14400000
MAX_REQUEST_BODY_SIZE == 1048576
MS_PER_MINUTE == 60 * 1000

ERROR_MESSAGES ==
  [ REQUEST_SUPERSEDED    |-> "Request superseded by a new request",
    REQUEST_TIMEOUT       |-> "Timed out waiting for user response",
    REQUEST_CANCELLED     |-> "Request cancelled",
    EXTENSION_DEACTIVATED |-> "Extension deactivated",
    INVALID_JSON          |-> "Invalid JSON" ]

\* ------------------------------------------------------ JavaScript values
\* A value is a tagged record; strings are sequences of one-character strings.
Undefined == [t |-> "undefined", v |-> <<>>]
Str(s) == [t |-> "string", v |-> s]
Num(n) == [t |-> "number", v |-> n]

\* ToBoolean: undefined, "" and 0 are falsy.
Truthy(x) ==
  CASE x.t = "undefined" -> FALSE
    [] x.t = "string" -> x.v # <<>>
    [] x.t = "number" -> x.v # 0

\* a || b
OrElse(a, b) == IF Truthy(a) THEN a ELSE b

\* a ?? b
Coalesce(a, b) == IF a.t = "undefined" THEN b ELSE a

IsSpace(ch) == ch = " "

RECURSIVE TrimStart(_)
TrimStart(s) ==
  IF s # <<>> /\ IsSpace(Head(s)) THEN TrimStart(Tail(s)) ELSE s

RECURSIVE TrimEnd(_)
TrimEnd(s) ==
  IF s # <<>> /\ IsSpace(s[Len(s)]) THEN TrimEnd(SubSeq(s, 1, Len(s) - 1)) ELSE s

\* String.prototype.trim
trim(s) == TrimEnd(TrimStart(s))

Digit(d) == <<"0", "1", "2", "3", "4", "5", "6", "7", "8", "9">>[d + 1]

\* Number.prototype.toString for a non-negative integer
RECURSIVE toString(_)
toString(n) ==
  IF n < 10 THEN <<Digit(n)>> ELSE toString(n \div 10) \o <<Digit(n % 10)>>

\* ------------------------------------------------ Map<string, {res, timer}>
\* A Map keeps insertion order: a sequence of entries [key, res, timer].
\* timer = 0 stands for an undefined timer handle; a handle is otherwise the
\* connection whose handler created it.
RECURSIVE MapIndex(_, _)
MapIndex(m, k) ==
  IF m = <<>> THEN 0
  ELSE IF m[Len(m)].key = k THEN Len(m)
  ELSE MapIndex(SubSeq(m, 1, Len(m) - 1), k)

MapHas(m, k) == MapIndex(m, k) # 0

MapGet(m, k) == m[MapIndex(m, k)]

MapSet(m, k, res, timer) ==
  LET e == [key |-> k, res |-> res, timer |-> timer]
  IN IF MapHas(m, k) THEN [m EXCEPT ![MapIndex(m, k)] = e] ELSE Append(m, e)

MapDelete(m, k) ==
  IF MapHas(m, k)
  THEN SubSeq(m, 1, MapIndex(m, k) - 1) \o SubSeq(m, MapIndex(m, k) + 1, Len(m))
  ELSE m

MapKeys(m) == [i \in 1..Len(m) |-> m[i].key]

\* ------------------------------------------------------------------ state
VARIABLES
  now,               \* Date.now(), in milliseconds
  phase,             \* per connection: where its 'end' handler stands
  req,               \* per connection: requestId and data.timeoutMinutes of its handler
  wait,              \* per connection: the readiness promise its showPrompt awaits
  written,           \* per connection: the writeHead/end pairs its res received
  timers,            \* per connection: the setTimeout handle its handler created
  pendingRequests,   \* HttpService.pendingRequests
  activeRequestId,   \* HttpService.activeRequestId
  server,            \* HttpService.server
  view,              \* ChatPanelProvider._view is set
  currentRequestId,  \* ChatPanelProvider._currentRequestId
  gen,               \* which promise _viewReadyPromise currently is
  readyGens,         \* the readiness promises that are resolved
  posted,            \* connections whose prompt was posted to the webview
  racers,            \* connections awaiting Promise.race, in the order they began
  bodySize,          \* per connection: bodySize of its data handler
  destroyed,         \* connections whose socket was destroyed
  received,          \* per connection: the responses its socket carried to the client
  inUse,             \* ports on which another process listens
  triedPorts,        \* HttpService.triedPorts
  port,              \* HttpService.port
  boundPort,         \* the port the server's handle is bound to, 0 when none
  pendingListen,     \* the server.listen call whose outcome is not yet known
  listeners,         \* the once('listening') callbacks registered on the server
  emitQueue,         \* the 'listening' callbacks of the running emit still to be called
  startPromise,      \* the promise start() returned
  portFiles,         \* per workspace folder: content of its port file, NoFile when none
  tempFiles,         \* os.tmpdir(): the writes made, each with file name, content and submission
  submitted,         \* the last 'submit' message handled
  fired              \* the answers _onUserResponse fired for it

vars == <<now, phase, req, wait, written, timers, pendingRequests,
          activeRequestId, server, view, currentRequestId, gen, readyGens,
          posted, racers, bodySize, destroyed, received, inUse, triedPorts, port, boundPort,
          pendingListen, listeners, emitQueue, startPromise, portFiles,
          tempFiles, submitted, fired>>

\* The variables of the port allocator that the bridge's handlers never touch
allocVars == <<inUse, triedPorts, port, boundPort, pendingListen, listeners,
               emitQueue, startPromise>>

\* The record of the last submission
submitVars == <<submitted, fired>>

Absent == "<absent>"

\* defaulted records that validateRequestId generated the identifier.
NoReq == [requestId |-> <<>>, timeoutMinutes |-> Undefined, defaulted |-> FALSE]
NoWait == 0
NoTimer == [state |-> "none", due |-> 0]
NoSubmit == [type |-> Absent]

\* The part of the state that synchronous code reads and writes, as one record.
\* trace collects the effects of a step in program order.
St ==
  [ phase |-> phase, req |-> req, wait |-> wait, written |-> written,
    timers |-> timers, pendingRequests |-> pendingRequests,
    activeRequestId |-> activeRequestId, server |-> server,
    currentRequestId |-> currentRequestId, posted |-> posted, racers |-> racers,
    portFiles |-> portFiles, tempFiles |-> tempFiles,
    bodySize |-> bodySize, destroyed |-> destroyed, received |-> received,
    trace |-> <<>> ]

Commit(s) ==
  /\ phase' = s.phase
  /\ req' = s.req
  /\ wait' = s.wait
  /\ written' = s.written
  /\ timers' = s.timers
  /\ pendingRequests' = s.pendingRequests
  /\ activeRequestId' = s.activeRequestId
  /\ server' = s.server
  /\ currentRequestId' = s.currentRequestId
  /\ posted' = s.posted
  /\ racers' = s.racers
  /\ portFiles' = s.portFiles
  /\ tempFiles' = s.tempFiles
  /\ bodySize' = s.bodySize
  /\ destroyed' = s.destroyed
  /\ received' = s.received

Effect(s, op, c) == [s EXCEPT !.trace = Append(@, [op |-> op, c |-> c])]

\* ------------------------------------------------- http.ServerResponse
writableEnded(s, c) == Len(s.written[c]) > 0

\* res.writeHead(status, ...); res.end(JSON.stringify(body)): the response is
\* ended; what is written to a destroyed socket is dropped.
resEnd(s, c, status, body) ==
  Effect([s EXCEPT !.written[c] = Append(@, [status |-> status, body |-> body]),
                   !.received[c] = IF c \in s.destroyed THEN @
                                   ELSE Append(@, [status |-> status, body |-> body])],
         "end", c)

\* req.destroy(): destroys the socket the request arrived on; no further
\* 'data' or 'end' event is emitted.
reqDestroy(s, c) == Effect([s EXCEPT !.destroyed = @ \cup {c}], "destroy", c)

\* clearTimeout(timer): a timer that has not fired yet never fires
clearTimeout(s, t) ==
  Effect([s EXCEPT !.timers[t] = IF @.state = "armed" THEN [state |-> "cleared", due |-> 0] ELSE @],
         "clearTimeout", t)

\* A JSON body; a key the object does not have is Absent (Undefined for requestId).
Body(action, error, text, images, requestId) ==
  [action |-> action, error |-> error, text |-> text, images |-> images,
   requestId |-> requestId]

StatusBody(error) == Body(Absent, error, Absent, <<>>, Undefined)

\* ------------------------------------------------------------ HttpService
createErrorResponse(error) == Body("error", error, "", <<>>, Undefined)

validateRequestId(requestId) ==
  IF ~Truthy(requestId) \/ requestId.t # "string" \/ trim(requestId.v) = <<>>
  THEN toString(now)
  ELSE trim(requestId.v)

NoResponseData == Body(Absent, Absent, Absent, <<>>, Undefined)

\* clearPendingRequest writing the response whatever send and writableEnded are
clearPendingRequest_AlwaysSends(s, requestId, send, responseData) ==
  IF ~MapHas(s.pendingRequests, requestId) THEN s
  ELSE
    LET pending == MapGet(s.pendingRequests, requestId)
        s1 == IF pending.timer # 0 THEN clearTimeout(s, pending.timer) ELSE s
        data == IF responseData # NoResponseData THEN responseData
                ELSE createErrorResponse(ERROR_MESSAGES.REQUEST_CANCELLED)
        s2 == resEnd(s1, pending.res, 200, data)
    IN Effect([s2 EXCEPT !.pendingRequests = MapDelete(@, requestId)],
              "delete", pending.res)

\* clearPendingRequest never writing a response
clearPendingRequest_Silent(s, requestId, send, responseData) ==
  IF ~MapHas(s.pendingRequests, requestId) THEN s
  ELSE
    LET pending == MapGet(s.pendingRequests, requestId)
        s1 == IF pending.timer # 0 THEN clearTimeout(s, pending.timer) ELSE s
    IN Effect([s1 EXCEPT !.pendingRequests = MapDelete(@, requestId)],
              "delete", pending.res)

\* clearPendingRequest without clearTimeout
clearPendingRequest_KeepsTimer(s, requestId, send, responseData) ==
  IF ~MapHas(s.pendingRequests, requestId) THEN s
  ELSE
    LET pending == MapGet(s.pendingRequests, requestId)
        data == IF responseData # NoResponseData THEN responseData
                ELSE createErrorResponse(ERROR_MESSAGES.REQUEST_CANCELLED)
        s2 == IF send /\ ~writableEnded(s, pending.res)
              THEN resEnd(s, pending.res, 200, data)
              ELSE s
    IN Effect([s2 EXCEPT !.pendingRequests = MapDelete(@, requestId)],
              "delete", pending.res)

clearPendingRequest(s, requestId, send, responseData) ==
  IF ~MapHas(s.pendingRequests, requestId) THEN s
  ELSE
    LET pending == MapGet(s.pendingRequests, requestId)
        s1 == IF pending.timer # 0 THEN clearTimeout(s, pending.timer) ELSE s
        data == IF responseData # NoResponseData THEN responseData
                ELSE createErrorResponse(ERROR_MESSAGES.REQUEST_CANCELLED)
        s2 == IF send /\ ~writableEnded(s1, pending.res)
              THEN resEnd(s1, pending.res, 200, data)
              ELSE s1
    IN Effect([s2 EXCEPT !.pendingRequests = MapDelete(@, requestId)],
              "delete", pending.res)

\* sendResponse without the call of clearPendingRequest
sendResponse_KeepsEntry(s, response, requestId) ==
  LET id == OrElse(requestId, s.activeRequestId)
  IN IF ~(Truthy(id) /\ MapHas(s.pendingRequests, id.v)) THEN s
     ELSE
       LET pending == MapGet(s.pendingRequests, id.v)
           s1 == IF ~writableEnded(s, pending.res)
                 THEN resEnd(s, pending.res, 200, response)
                 ELSE s
       IN IF s1.activeRequestId = id
          THEN [s1 EXCEPT !.activeRequestId = Undefined]
          ELSE s1

\* sendResponse falling back to activeRequestId when requestId is not pending
sendResponse_FallsBack(s, response, requestId) ==
  LET id == IF Truthy(requestId) /\ MapHas(s.pendingRequests, requestId.v)
            THEN requestId
            ELSE s.activeRequestId
  IN IF ~(Truthy(id) /\ MapHas(s.pendingRequests, id.v)) THEN s
     ELSE
       LET pending == MapGet(s.pendingRequests, id.v)
           s1 == IF ~writableEnded(s, pending.res)
                 THEN resEnd(s, pending.res, 200, response)
                 ELSE s
           s2 == clearPendingRequest(s1, id.v, FALSE, NoResponseData)
       IN IF s2.activeRequestId = id
          THEN [s2 EXCEPT !.activeRequestId = Undefined]
          ELSE s2

sendResponse(s, response, requestId) ==
  LET id == OrElse(requestId, s.activeRequestId)
  IN IF ~(Truthy(id) /\ MapHas(s.pendingRequests, id.v)) THEN s
     ELSE
       LET pending == MapGet(s.pendingRequests, id.v)
           s1 == IF ~writableEnded(s, pending.res)
                 THEN resEnd(s, pending.res, 200, response)
                 ELSE s
           s2 == clearPendingRequest(s1, id.v, FALSE, NoResponseData)
       IN IF s2.activeRequestId = id
          THEN [s2 EXCEPT !.activeRequestId = Undefined]
          ELSE s2

\* setTimeout(callback, ms) by the handler of connection c: the handle is c.
\* A delay above 2^31 - 1 is replaced by 1.
setTimeout(s, c, ms) ==
  [s EXCEPT !.timers[c] =
     [state |-> "armed", due |-> now + (IF ms > 2147483647 THEN 1 ELSE ms)]]

\* handleIncomingRequest, 'end' handler, from the statement after the await:
\* compute the timeout, arm the timer, register the connection.
Register(s, c) ==
  LET requestId == s.req[c].requestId
      timeoutMinutes ==
        Coalesce(s.req[c].timeoutMinutes, Num(DEFAULT_REQUEST_TIMEOUT_MS \div 60000)).v
      timeoutMs == IF timeoutMinutes = 0 THEN 0 ELSE timeoutMinutes * MS_PER_MINUTE
      s1 == IF timeoutMs > 0 THEN setTimeout(s, c, timeoutMs) ELSE s
      timer == IF timeoutMs > 0 THEN c ELSE 0
  IN Effect([s1 EXCEPT !.pendingRequests = MapSet(@, requestId, c, timer),
                       !.phase[c] = "registered"],
            "set", c)

\* handleIncomingRequest, 'end' handler, catch block
CatchHandler(s, c) ==
  LET s1 == IF ~writableEnded(s, c)
            THEN resEnd(s, c, 400, StatusBody(ERROR_MESSAGES.INVALID_JSON))
            ELSE s
  IN [s1 EXCEPT !.phase[c] = "rejected"]

\* ------------------------------------------------------ ChatPanelProvider
WARNING_NOT_READY == "[warning] webview not ready"
WARNING_NO_VIEW == "[warning] view not available"

\* The subscriber of ChatPanelProvider.onUserResponse
onUserResponse(s, response) == sendResponse(s, response, response.requestId)

\* showPrompt after the readiness wait succeeded
ShowPromptReady(s, c) ==
  IF view
  THEN Effect([s EXCEPT !.posted = @ \cup {c}], "postMessage", c)
  ELSE onUserResponse(s, Body("continue", Absent, WARNING_NO_VIEW, <<>>,
                              Str(s.req[c].requestId)))

\* showPrompt after the readiness wait timed out
ShowPromptTimeout(s, c) ==
  onUserResponse(s, Body("continue", Absent, WARNING_NOT_READY, <<>>,
                         Str(s.req[c].requestId)))

\* showPrompt from Promise.race on, the wait over at once when any readiness
\* promise was ever resolved
ShowPromptRace_IgnoresLatch(s, c) ==
  IF readyGens # {}
  THEN Register(ShowPromptReady(s, c), c)
  ELSE [s EXCEPT !.phase[c] = "race",
                 !.wait[c] = gen,
                 !.racers = Append(@, c)]

\* showPrompt from Promise.race on: the wait is over at once when the promise
\* is already resolved, and the handler then continues in the same turn.
ShowPromptRace(s, c) ==
  IF gen \in readyGens
  THEN Register(ShowPromptReady(s, c), c)
  ELSE [s EXCEPT !.phase[c] = "race",
                 !.wait[c] = gen,
                 !.racers = Append(@, c)]

\* showPrompt up to its first suspension
showPrompt(s, c, requestId) ==
  LET s1 == Effect([s EXCEPT !.currentRequestId = Str(requestId)], "onRequest", c)
  IN IF ~view
     THEN [s1 EXCEPT !.phase[c] = "focus"]
     ELSE ShowPromptRace(s1, c)

\* The notifier the endpoint awaits
onRequest(s, c, requestId) == showPrompt(s, c, requestId)

\* The 'end' handler validating the prompt only after the ledger was touched
EndHandler_LateValidation(s, c, body) ==
  IF body.json = "malformed" \/ body.json = "null" THEN CatchHandler(s, c)
  ELSE
    LET requestId == validateRequestId(body.requestId)
        s2 == clearPendingRequest(s, requestId, TRUE,
                createErrorResponse(ERROR_MESSAGES.REQUEST_SUPERSEDED))
        s3 == [s2 EXCEPT !.activeRequestId = Str(requestId)]
    IN IF ~Truthy(body.prompt) \/ body.prompt.t # "string"
       THEN [resEnd(s3, c, 400, StatusBody("Invalid prompt field"))
               EXCEPT !.phase[c] = "rejected"]
       ELSE onRequest([s3 EXCEPT !.req[c] =
                         [requestId |-> requestId,
                          timeoutMinutes |-> body.timeoutMinutes,
                          defaulted |-> ~(body.requestId.t = "string"
                                          /\ requestId = trim(body.requestId.v))]],
                      c, requestId)

\* handleIncomingRequest, 'end' handler, up to the await
EndHandler(s, c, body) ==
  IF body.json = "malformed" \/ body.json = "null" THEN CatchHandler(s, c)
  ELSE IF ~Truthy(body.prompt) \/ body.prompt.t # "string"
  THEN [resEnd(s, c, 400, StatusBody("Invalid prompt field"))
          EXCEPT !.phase[c] = "rejected"]
  ELSE
    LET requestId == validateRequestId(body.requestId)
        s1 == [s EXCEPT !.req[c] =
                 [requestId |-> requestId,
                  timeoutMinutes |-> body.timeoutMinutes,
                  defaulted |-> ~(body.requestId.t = "string"
                                  /\ requestId = trim(body.requestId.v))]]
        s2 == clearPendingRequest(s1, requestId, TRUE,
                createErrorResponse(ERROR_MESSAGES.REQUEST_SUPERSEDED))
        s3 == [s2 EXCEPT !.activeRequestId = Str(requestId)]
    IN onRequest(s3, c, requestId)

\* handleIncomingRequest, 'data' handler
DataHandler(s, c, chunk) ==
  LET s1 == [s EXCEPT !.bodySize[c] = @ + chunk]
  IN IF s1.bodySize[c] > MAX_REQUEST_BODY_SIZE
     THEN [resEnd(reqDestroy(s1, c), c, 413, StatusBody("Request body too large"))
             EXCEPT !.phase[c] = "rejected"]
     ELSE s1

\* handleIncomingRequest, 'error' handler of the request
ErrorHandler(s, c) ==
  LET s1 == IF ~writableEnded(s, c)
            THEN resEnd(s, c, 500, StatusBody("Request error"))
            ELSE s
  IN [s1 EXCEPT !.phase[c] = "rejected"]

\* ---------------------------------------------------------- port allocator
Roots == 1..MaxRoots

\* A port file that does not exist
NoFile == <<Absent>>

NoListen == [port |-> 0, attempt |-> 0]

NO_PORT_ERROR == "Could not find an available port"

\* A promise is settled by the first resolve or reject only
Settle(promise, state, value) ==
  IF promise.state = "pending" THEN [state |-> state, value |-> value] ELSE promise

\* getNextPort without the wrap at the top of the range
getNextPort_NoWrap(currentPort) == currentPort + 1

getNextPort(currentPort) ==
  IF currentPort + 1 > BASE_PORT + MAX_PORT_ATTEMPTS THEN BASE_PORT ELSE currentPort + 1

\* Every existing port file of a workspace folder is unlinked
cleanupAllPortFiles(files) == [r \in Roots |-> NoFile]

\* port.toString() is written to the port file of every workspace folder
writePortFiles(files, p) == [r \in Roots |-> toString(p)]

\* The part of the state the allocator reads and writes, as one record
Alloc ==
  [ triedPorts |-> triedPorts, pendingListen |-> pendingListen,
    listeners |-> listeners, startPromise |-> startPromise ]

CommitAlloc(a) ==
  /\ triedPorts' = a.triedPorts
  /\ pendingListen' = a.pendingListen
  /\ listeners' = a.listeners
  /\ startPromise' = a.startPromise

\* tryListen up to server.listen: listen(port, host, callback) registers
\* callback with once('listening'); the outcome arrives as a later event.
RECURSIVE tryListen(_, _, _)
tryListen(a, p, attempt) ==
  IF attempt >= MAX_PORT_ATTEMPTS
  THEN [a EXCEPT !.startPromise = Settle(@, "rejected", NO_PORT_ERROR),
                 !.pendingListen = NoListen]
  ELSE IF p \in a.triedPorts
  THEN tryListen(a, getNextPort(p), attempt + 1)
  ELSE [a EXCEPT !.triedPorts = @ \cup {p},
                 !.listeners = Append(@, p),
                 !.pendingListen = [port |-> p, attempt |-> attempt]]

\* onListenError
\* onListenError moving on to the next port whatever the error is
onListenError_AlwaysRetries(a, code) ==
  tryListen(a, getNextPort(a.pendingListen.port), a.pendingListen.attempt + 1)

onListenError(a, code) ==
  IF code = "EADDRINUSE"
  THEN tryListen(a, getNextPort(a.pendingListen.port), a.pendingListen.attempt + 1)
  ELSE [a EXCEPT !.startPromise = Settle(@, "rejected", code),
                 !.pendingListen = NoListen]

\* dispose: the loop over Array.from(this.pendingRequests.keys())
RECURSIVE ClearAll(_, _)
ClearAll(s, keys) ==
  IF keys = <<>> THEN s
  ELSE ClearAll(clearPendingRequest(s, Head(keys), TRUE,
                  createErrorResponse(ERROR_MESSAGES.EXTENSION_DEACTIVATED)),
                Tail(keys))

\* dispose closing the server before it drains the ledger
dispose_CloseFirst(s) ==
  LET s1 == Effect([s EXCEPT !.portFiles = cleanupAllPortFiles(@)],
                   "cleanupAllPortFiles", 0)
      s2 == IF s1.server # "null"
            THEN Effect([s1 EXCEPT !.server = "null"], "close", 0)
            ELSE s1
  IN ClearAll(s2, MapKeys(s2.pendingRequests))

dispose(s) ==
  LET s1 == Effect([s EXCEPT !.portFiles = cleanupAllPortFiles(@)],
                   "cleanupAllPortFiles", 0)
      s2 == ClearAll(s1, MapKeys(s1.pendingRequests))
  IN IF s2.server # "null"
     THEN Effect([s2 EXCEPT !.server = "null"], "close", 0)
     ELSE s2

\* The timer callback leaving the entry in the ledger
TimeoutCallback_KeepsEntry(s, c) ==
  LET requestId == s.req[c].requestId
      s0 == [s EXCEPT !.timers[c] = [state |-> "fired", due |-> 0]]
  IN IF ~MapHas(s0.pendingRequests, requestId) THEN s0
     ELSE
       LET pending == MapGet(s0.pendingRequests, requestId)
       IN IF writableEnded(s0, pending.res) THEN s0
          ELSE resEnd(s0, pending.res, 200,
                      createErrorResponse(ERROR_MESSAGES.REQUEST_TIMEOUT))

\* The timer callback writing to the res of its own handler, whatever the
\* ledger and writableEnded say
TimeoutCallback_OwnRes(s, c) ==
  LET requestId == s.req[c].requestId
      s0 == [s EXCEPT !.timers[c] = [state |-> "fired", due |-> 0]]
  IN Effect([resEnd(s0, c, 200, createErrorResponse(ERROR_MESSAGES.REQUEST_TIMEOUT))
               EXCEPT !.pendingRequests = MapDelete(@, requestId)],
            "delete", c)

\* The callback given to setTimeout by the handler of connection c
TimeoutCallback(s, c) ==
  LET requestId == s.req[c].requestId
      s0 == [s EXCEPT !.timers[c] = [state |-> "fired", due |-> 0]]
  IN IF ~MapHas(s0.pendingRequests, requestId) THEN s0
     ELSE
       LET pending == MapGet(s0.pendingRequests, requestId)
       IN IF writableEnded(s0, pending.res) THEN s0
          ELSE Effect([resEnd(s0, pending.res, 200,
                         createErrorResponse(ERROR_MESSAGES.REQUEST_TIMEOUT))
                        EXCEPT !.pendingRequests = MapDelete(@, requestId)],
                      "delete", pending.res)

\* Removes connection c from a sequence of connections
RECURSIVE Without(_, _)
Without(q, c) ==
  IF q = <<>> THEN <<>>
  ELSE IF Head(q) = c THEN Without(Tail(q), c)
  ELSE <<Head(q)>> \o Without(Tail(q), c)

\* The reactions of a resolved readiness promise g, in the order of the awaits
RECURSIVE ResumeAll(_, _, _)
ResumeAll(s, q, g) ==
  IF q = <<>> THEN s
  ELSE IF s.wait[Head(q)] = g
  THEN ResumeAll(Register(ShowPromptReady([s EXCEPT !.racers = Without(@, Head(q)),
                                                    !.wait[Head(q)] = NoWait],
                                           Head(q)), Head(q)),
                 Tail(q), g)
  ELSE ResumeAll(s, Tail(q), g)

\* _handleSubmit for a text of at most LONG_TEXT_THRESHOLD characters and no images
handleSubmit(s, text, images, requestId) ==
  onUserResponse(s, Body("instruction", Absent, text, images, requestId))

\* _handleWebviewMessage for 'continue', 'end' and 'submit'
handleWebviewMessage(s, message) ==
  LET requestId == OrElse(message.requestId, s.currentRequestId)
  IN CASE message.type = "continue" ->
            onUserResponse(s, Body("continue", Absent, "", <<>>, requestId))
       [] message.type = "end" ->
            onUserResponse(s, Body("end", Absent, "", <<>>, requestId))
       [] message.type = "submit" ->
            handleSubmit(s, message.text, <<>>, requestId)

\* ------------------------------------------------------------------ inputs
Prompts == {Undefined, Str(<<>>), Num(5), Str(<<"A">>)}

RequestIds ==
  {Undefined, Num(7), Str(<<>>), Str(<<" ">>), Str(<<"a">>), Str(<<" ", "a", " ">>)}

TimeoutMinutes == {Undefined, Num(0), Num(1)}

Bodies ==
  {[json |-> "malformed", prompt |-> Undefined, requestId |-> Undefined,
    timeoutMinutes |-> Undefined],
   [json |-> "null", prompt |-> Undefined, requestId |-> Undefined,
    timeoutMinutes |-> Undefined]}
  \cup [json : {"object"}, prompt : Prompts, requestId : RequestIds,
        timeoutMinutes : TimeoutMinutes]

\* The identifiers the webview was shown
ShownIds == {Str(req[c].requestId) : c \in posted}

Messages ==
  [type : {"end"}, text : {""}, requestId : ShownIds \cup {Undefined}]
  \cup [type : {"submit"}, text : {"do this"}, requestId : ShownIds \cup {Undefined}]

\* The instants at which a pending timer becomes due
Dues ==
  {timers[c].due : c \in {d \in Conns : timers[d].state = "armed"}}

Min(S) == CHOOSE x \in S : \A y \in S : x <= y

\* ------------------------------------------------------------------- Init
\* The bridge constructed and started: start() has resolved on BASE_PORT with
\* no other listener around, and no request has arrived yet.
Init ==
  /\ now = 0
  /\ phase = [c \in Conns |-> "none"]
  /\ req = [c \in Conns |-> NoReq]
  /\ wait = [c \in Conns |-> NoWait]
  /\ written = [c \in Conns |-> <<>>]
  /\ timers = [c \in Conns |-> NoTimer]
  /\ pendingRequests = <<>>
  /\ activeRequestId = Undefined
  /\ server = "listening"
  /\ view = FALSE
  /\ currentRequestId = Undefined
  /\ gen = 0
  /\ readyGens = {}
  /\ posted = {}
  /\ racers = <<>>
  /\ bodySize = [c \in Conns |-> 0]
  /\ destroyed = {}
  /\ received = [c \in Conns |-> <<>>]
  /\ inUse = {}
  /\ triedPorts = {BASE_PORT}
  /\ port = BASE_PORT
  /\ boundPort = BASE_PORT
  /\ pendingListen = NoListen
  /\ listeners = <<>>
  /\ emitQueue = <<>>
  /\ startPromise = [state |-> "resolved", value |-> BASE_PORT]
  /\ portFiles = [r \in Roots |-> toString(BASE_PORT)]
  /\ tempFiles = {}
  /\ submitted = NoSubmit
  /\ fired = <<>>

\* ---------------------------------------------------------------- actions
\* A POST /request whose body has been read: the 'end' handler runs.
Request(c) ==
  /\ phase[c] = "none"
  /\ server = "listening"
  /\ \A d \in Conns : d < c => phase[d] # "none"
  /\ \E body \in Bodies : Commit(EndHandler(St, c, body))
  /\ UNCHANGED <<now, view, gen, readyGens, allocVars, submitVars>>

\* executeCommand(PANEL_FOCUS) and the 100 ms wait are over.  The waits of
\* showPrompt are not measured on the clock: they end at any later step.
FocusDone(c) ==
  /\ phase[c] = "focus"
  /\ Commit(ShowPromptRace(St, c))
  /\ UNCHANGED <<now, view, gen, readyGens, allocVars, submitVars>>

\* executeCommand(PANEL_FOCUS) rejects: showPrompt rejects, the handler catches.
NotifierFails(c) ==
  /\ phase[c] = "focus"
  /\ Commit(CatchHandler(St, c))
  /\ UNCHANGED <<now, view, gen, readyGens, allocVars, submitVars>>

\* The timeout promise of Promise.race rejects first.
RaceTimeout(c) ==
  /\ phase[c] = "race"
  /\ Commit(Register(ShowPromptTimeout([St EXCEPT !.racers = Without(@, c),
                                                  !.wait[c] = NoWait], c), c))
  /\ UNCHANGED <<now, view, gen, readyGens, allocVars, submitVars>>

\* The host creates the view.
ResolveWebviewView ==
  /\ ~view
  /\ view' = TRUE
  /\ UNCHANGED <<now, phase, req, wait, written, timers, pendingRequests,
                 activeRequestId, server, currentRequestId, gen, readyGens,
                 posted, racers, bodySize, destroyed, received, allocVars,
                 portFiles, tempFiles,
                 submitVars>>

\* The webview posts 'ready'.
WebviewReady ==
  /\ view
  /\ readyGens' = readyGens \cup {gen}
  /\ Commit(ResumeAll(St, racers, gen))
  /\ UNCHANGED <<now, view, gen, allocVars, submitVars>>

\* The view becomes hidden: _resetViewReadyPromise.
Hide ==
  /\ view
  /\ gen < MaxResets
  /\ gen' = gen + 1
  /\ UNCHANGED <<now, phase, req, wait, written, timers, pendingRequests,
                 activeRequestId, server, view, currentRequestId, readyGens,
                 posted, racers, bodySize, destroyed, received, allocVars,
                 portFiles, tempFiles,
                 submitVars>>

\* The webview posts the human's 'continue', 'end' or 'submit'.
WebviewMessage ==
  /\ view
  /\ \E message \in Messages : Commit(handleWebviewMessage(St, message))
  /\ UNCHANGED <<now, view, gen, readyGens, allocVars, submitVars>>

\* The timer of connection c fires.
TimerFire(c) ==
  /\ timers[c].state = "armed"
  /\ now >= timers[c].due
  /\ Commit(TimeoutCallback(St, c))
  /\ UNCHANGED <<now, view, gen, readyGens, allocVars, submitVars>>

\* The extension is deactivated.
Dispose ==
  /\ server = "listening"
  /\ emitQueue = <<>>
  /\ Commit(dispose(St))
  /\ UNCHANGED <<now, view, gen, readyGens, allocVars, submitVars>>

\* One millisecond passes.
Tick ==
  /\ now < MaxMsTicks
  /\ now' = now + 1
  /\ UNCHANGED <<phase, req, wait, written, timers, pendingRequests,
                 activeRequestId, server, view, currentRequestId, gen, readyGens,
                 posted, racers, bodySize, destroyed, received, allocVars,
                 portFiles, tempFiles,
                 submitVars>>

\* Time passes until the next timer is due.
TickToDue ==
  /\ \E d \in Dues : d > now
  /\ now' = Min({d \in Dues : d > now})
  /\ UNCHANGED <<phase, req, wait, written, timers, pendingRequests,
                 activeRequestId, server, view, currentRequestId, gen, readyGens,
                 posted, racers, bodySize, destroyed, received, allocVars,
                 portFiles, tempFiles,
                 submitVars>>

Next ==
  \/ \E c \in Conns : Request(c)
  \/ \E c \in Conns : FocusDone(c)
  \/ \E c \in Conns : NotifierFails(c)
  \/ \E c \in Conns : RaceTimeout(c)
  \/ \E c \in Conns : TimerFire(c)
  \/ ResolveWebviewView
  \/ WebviewReady
  \/ Hide
  \/ WebviewMessage
  \/ Dispose
  \/ Tick
  \/ TickToDue

Spec == Init /\ [][Next]_vars

TypeOK ==
  /\ now \in Nat
  /\ \A c \in Conns : phase[c] \in {"none", "focus", "race", "registered", "rejected"}
  /\ \A c \in Conns : Len(written[c]) <= 2


\* ------------------------------------------------------ reading the body
\* The lengths of the chunks a body arrives in: two chunks reach the cap
\* exactly or pass it, three always pass it.
ChunkLengths == {MAX_REQUEST_BODY_SIZE \div 2, MAX_REQUEST_BODY_SIZE \div 2 + 1}

\* A chunk of the body of a POST /request arrives: the 'data' handler runs.
Data(c) ==
  /\ phase[c] = "none"
  /\ server = "listening"
  /\ \A d \in Conns : d < c => phase[d] # "none"
  /\ \E chunk \in ChunkLengths : Commit(DataHandler(St, c, chunk))
  /\ UNCHANGED <<now, view, gen, readyGens, allocVars, submitVars>>

\* Reading the body fails: the request emits 'error', and no 'end'.
ReqError(c) ==
  /\ phase[c] = "none"
  /\ server = "listening"
  /\ \A d \in Conns : d < c => phase[d] # "none"
  /\ Commit(ErrorHandler(St, c))
  /\ UNCHANGED <<now, view, gen, readyGens, allocVars, submitVars>>

TransportNext ==
  \/ \E c \in Conns : Data(c)
  \/ \E c \in Conns : ReqError(c)
  \/ \E c \in Conns : Request(c)
  \/ \E c \in Conns : FocusDone(c)
  \/ ResolveWebviewView
  \/ WebviewReady
  \/ WebviewMessage
  \/ Dispose

TransportSpec == Init /\ [][TransportNext]_vars

\* -------------------------------------------------- _handleSubmit in full
\* A text is a sequence of pieces: a character of the human's text, the
\* warning prefix, or the pointer message.
Chars(n) == [i \in 1..n |-> [ch |-> "x"]]

\* path.join(tempDir, `wsc_img_${uniqueId}_${i}.png`)
imgPath(uniqueId, i) == [file |-> "wsc_img", uniqueId |-> uniqueId, i |-> i]

\* path.join(tempDir, `windsurf_chat_instruction_${uniqueId}.txt`)
txtPath(uniqueId) == [file |-> "windsurf_chat_instruction", uniqueId |-> uniqueId]

\* The indices images.forEach passes to its callback, in order
Indices(images) == [k \in 1..Len(images) |-> k - 1]

\* savedImages after the loop; fails are the indices whose write throws
savedImages(images, fails, uniqueId) ==
  LET ok(i) == i \notin fails
      kept == SelectSeq(Indices(images), ok)
  IN [k \in 1..Len(kept) |-> imgPath(uniqueId, kept[k])]

\* failedImages after the loop, with i replaced by i + 1
failedImages_ZeroBased(images, fails) ==
  LET bad(i) == i \in fails
  IN SelectSeq(Indices(images), bad)

\* failedImages after the loop
failedImages(images, fails) ==
  LET bad(i) == i \in fails
      lost == SelectSeq(Indices(images), bad)
  IN [k \in 1..Len(lost) |-> lost[k] + 1]

warningPrefix(failed) ==
  IF Len(failed) > 0 THEN <<[warning |-> failed]>> ELSE <<>>

\* The answer _handleSubmit fires, with >= in place of >
SubmitAnswer_AtThreshold(text, images, requestId, uniqueId, fails) ==
  IF Len(text) >= LONG_TEXT_THRESHOLD
  THEN Body("instruction", Absent,
            warningPrefix(failedImages(images, fails))
              \o <<[pointer |-> txtPath(uniqueId)]>>,
            savedImages(images, fails, uniqueId), requestId)
  ELSE Body("instruction", Absent,
            warningPrefix(failedImages(images, fails)) \o text,
            savedImages(images, fails, uniqueId), requestId)

\* The answer _handleSubmit fires
SubmitAnswer(text, images, requestId, uniqueId, fails) ==
  IF Len(text) > LONG_TEXT_THRESHOLD
  THEN Body("instruction", Absent,
            warningPrefix(failedImages(images, fails))
              \o <<[pointer |-> txtPath(uniqueId)]>>,
            savedImages(images, fails, uniqueId), requestId)
  ELSE Body("instruction", Absent,
            warningPrefix(failedImages(images, fails)) \o text,
            savedImages(images, fails, uniqueId), requestId)

\* The files _handleSubmit writes, each with its content
SubmitFiles(text, images, uniqueId, fails) ==
  {[name |-> imgPath(uniqueId, i), content |-> <<images[i + 1]>>] :
     i \in {j \in 0..(Len(images) - 1) : j \notin fails}}
  \cup (IF Len(text) > LONG_TEXT_THRESHOLD
        THEN {[name |-> txtPath(uniqueId), content |-> text]}
        ELSE {})

\* crypto.randomBytes(4).toString('hex'): any token may be drawn, any time
UniqueIds == {"0a1b2c3d", "ffffffff"}

Texts == {Chars(0), Chars(2), Chars(LONG_TEXT_THRESHOLD), Chars(LONG_TEXT_THRESHOLD + 1)}

ImageLists == UNION {[1..n -> {"data:image/png;base64,AAAA"}] : n \in 0..MaxImages}

\* How many submissions were handled
SubmitCount == IF submitted = NoSubmit THEN 0 ELSE submitted.n

\* The webview posts 'submit': _handleSubmit runs; fs.writeFileSync of an
\* image may throw, which the loop catches.
Submit ==
  /\ SubmitCount < MaxSubmits
  /\ \E text \in Texts, images \in ImageLists, uniqueId \in UniqueIds,
        requestId \in {Undefined, Str(<<"a">>)} :
       \E fails \in SUBSET (0..(Len(images) - 1)) :
         /\ submitted' = [type |-> "submit", n |-> SubmitCount + 1, text |-> text,
                          images |-> images, requestId |-> requestId,
                          uniqueId |-> uniqueId, fails |-> fails]
         /\ tempFiles' = tempFiles \cup
                           {[name |-> f.name, content |-> f.content,
                             by |-> SubmitCount + 1] :
                              f \in SubmitFiles(text, images, uniqueId, fails)}
         /\ fired' = <<SubmitAnswer(text, images, requestId, uniqueId, fails)>>
  /\ UNCHANGED <<now, phase, req, wait, written, timers, pendingRequests,
                 activeRequestId, server, view, currentRequestId, gen, readyGens,
                 posted, racers, bodySize, destroyed, received, allocVars,
                 portFiles>>

SubmitNext == Submit

SubmitSpec == Init /\ [][SubmitNext]_vars

\* ------------------------------------------------------ the port allocator
\* The ports getNextPort ranges over
Range == BASE_PORT..(BASE_PORT + MAX_PORT_ATTEMPTS)

\* The sets of ports other processes listen on: the first k ports of the range
OccupiedPrefixes == {0, 1, 2, 3, MAX_PORT_ATTEMPTS, MAX_PORT_ATTEMPTS + 1}

InUseChoices == {BASE_PORT..(BASE_PORT + k - 1) : k \in OccupiedPrefixes}

\* A port file a previous instance left behind
StaleFiles == {NoFile, toString(BASE_PORT + 7)}

\* The bridge constructed, start() not yet called
AllocInit ==
  /\ now = 0
  /\ phase = [c \in Conns |-> "none"]
  /\ req = [c \in Conns |-> NoReq]
  /\ wait = [c \in Conns |-> NoWait]
  /\ written = [c \in Conns |-> <<>>]
  /\ timers = [c \in Conns |-> NoTimer]
  /\ pendingRequests = <<>>
  /\ activeRequestId = Undefined
  /\ server = "null"
  /\ view = FALSE
  /\ currentRequestId = Undefined
  /\ gen = 0
  /\ readyGens = {}
  /\ posted = {}
  /\ racers = <<>>
  /\ bodySize = [c \in Conns |-> 0]
  /\ destroyed = {}
  /\ received = [c \in Conns |-> <<>>]
  /\ inUse \in InUseChoices
  /\ triedPorts = {}
  /\ port = 0
  /\ boundPort = 0
  /\ pendingListen = NoListen
  /\ listeners = <<>>
  /\ emitQueue = <<>>
  /\ startPromise = [state |-> "none", value |-> 0]
  /\ portFiles \in [Roots -> StaleFiles]
  /\ tempFiles = {}
  /\ submitted = NoSubmit
  /\ fired = <<>>

\* The variables of the bridge the allocator never touches
bridgeVars == <<now, phase, req, wait, written, timers, pendingRequests,
                activeRequestId, view, currentRequestId, gen, readyGens,
                posted, racers, bodySize, destroyed, received, tempFiles,
                submitVars>>

\* start(): the port files are cleaned up, the server is created and the
\* first listen is issued on BASE_PORT.
Start ==
  /\ startPromise.state = "none"
  /\ server = "null"
  /\ portFiles' = cleanupAllPortFiles(portFiles)
  /\ server' = "created"
  /\ CommitAlloc(tryListen([Alloc EXCEPT !.startPromise = [state |-> "pending", value |-> 0]],
                           BASE_PORT, 0))
  /\ UNCHANGED <<bridgeVars, inUse, port, boundPort, emitQueue>>

\* The pending listen fails with EADDRINUSE: the 'error' event calls onListenError.
ListenInUse ==
  /\ pendingListen # NoListen
  /\ pendingListen.port \in inUse
  /\ CommitAlloc(onListenError(Alloc, "EADDRINUSE"))
  /\ UNCHANGED <<bridgeVars, inUse, port, boundPort, emitQueue, server, portFiles>>

\* The pending listen fails with another error.
ListenFails ==
  /\ pendingListen # NoListen
  /\ CommitAlloc(onListenError(Alloc, "EACCES"))
  /\ UNCHANGED <<bridgeVars, inUse, port, boundPort, emitQueue, server, portFiles>>

\* The pending listen succeeds: the server is bound and emits 'listening'
\* to the callbacks registered with once('listening'), in registration order.
Listening ==
  /\ pendingListen # NoListen
  /\ pendingListen.port \notin inUse
  /\ boundPort' = pendingListen.port
  /\ server' = "listening"
  /\ emitQueue' = listeners
  /\ listeners' = <<>>
  /\ pendingListen' = NoListen
  /\ UNCHANGED <<bridgeVars, inUse, port, triedPorts, startPromise, portFiles>>

\* The next callback of the 'listening' emit: the callback tryListen(p, ...)
\* gave to server.listen.
ListeningCallback ==
  /\ emitQueue # <<>>
  /\ port' = Head(emitQueue)
  /\ portFiles' = writePortFiles(portFiles, Head(emitQueue))
  /\ startPromise' = Settle(startPromise, "resolved", Head(emitQueue))
  /\ emitQueue' = Tail(emitQueue)
  /\ UNCHANGED <<bridgeVars, inUse, boundPort, triedPorts, pendingListen,
                 listeners, server>>

AllocNext ==
  \/ Start
  \/ ListenInUse
  \/ ListenFails
  \/ Listening
  \/ ListeningCallback
  \/ Dispose

AllocSpec == AllocInit /\ [][AllocNext]_vars

\* ------------------------------------------------------------ vocabulary
InLedger(c) == \E i \in 1..Len(pendingRequests) : pendingRequests[i].res = c

InLedgerAfter(c) == \E i \in 1..Len(pendingRequests') : pendingRequests'[i].res = c

Accepted(c) == phase[c] \in {"focus", "race", "registered"}

Answered(c) == written[c] # <<>>

ErrorAnswer(error) == [status |-> 200, body |-> createErrorResponse(error)]

OthersUntouched(c) == \A d \in Conns \ {c} : written'[d] = written[d]

\* data.timeoutMinutes ?? (DEFAULT_REQUEST_TIMEOUT_MS / 60000), as the claim states it
EffectiveMinutes(r) ==
  IF r.timeoutMinutes = Undefined
  THEN DEFAULT_REQUEST_TIMEOUT_MS \div 60000
  ELSE r.timeoutMinutes.v

\* Position of the first effect op in a trace, 0 when there is none
FirstIndex(tr, op) ==
  IF \E i \in 1..Len(tr) : tr[i].op = op
  THEN Min({i \in 1..Len(tr) : tr[i].op = op})
  ELSE 0

\* ------------------------------------------------------------------ claims

\* C1: over every interleaving of answers, timeouts, supersessions and
\* dispose, no connection receives more than one writeHead/end pair.
C1_AtMostOnceWrite == \A c \in Conns : Len(written[c]) <= 1

\* A connection answered by the human, its timer cancelled, and dispose run since.
C1_Witness ==
  \E c \in Conns :
    /\ Len(written[c]) = 1
    /\ written[c][1].body.action = "end"
    /\ timers[c].state = "cleared"
    /\ server = "null"

\* A registered connection that is unanswered and has no ledger entry.
\* Every writer (sendResponse, the timeout callback, supersession, dispose)
\* reaches a connection through its ledger entry, so nothing writes to it.
Hung(c) == phase[c] = "registered" /\ ~Answered(c) /\ ~InLedger(c)

\* C2 (auxiliary): a hung connection stays hung in every step, whatever the
\* scheduling, so a reachable hung state refutes eventual resolution.
C2_HungIsForever == [][\A c \in Conns : Hung(c) => Hung(c)']_vars

\* C2: every accepted request with a positive effective timeout eventually
\* has a terminal body written to its connection, also when several requests
\* with the same identifier are accepted during the await of the notifier:
\* no registered, unanswered connection is ever without the ledger entry
\* through which an answer, its timer, a supersession or shutdown resolves it.
C2_EventualResolution ==
  \A c \in Conns :
    (phase[c] = "registered" /\ EffectiveMinutes(req[c]) > 0 /\ ~Answered(c))
      => InLedger(c)

\* C3: an answer handed to sendResponse with the identifier of an accepted,
\* unanswered request is written to that request's connection, also while
\* the endpoint still awaits the notifier for it: in every reachable state,
\* a human answer from the webview and the answer showPrompt itself fires
\* when the readiness wait times out both end up on the connection.
C3_NoAnswerLost ==
  \A c \in Conns :
    (/\ Accepted(c) /\ ~Answered(c)
     /\ \A d \in Conns \ {c} : req[d].requestId # req[c].requestId)
    => /\ view =>
            \A m \in Messages :
              OrElse(OrElse(m.requestId, currentRequestId), activeRequestId)
                = Str(req[c].requestId)
              => handleWebviewMessage(St, m).written[c] # <<>>
       /\ phase[c] = "race" => ShowPromptTimeout(St, c).written[c] # <<>>

\* C4: a /request arriving while an entry with the same identifier is pending
\* in the ledger writes the superseded error answer (empty text and images)
\* to the earlier connection and removes its entry, and a later human answer
\* for that identifier is written to the connection that then holds the entry.
C4_SupersessionOutcome ==
  [][\A d \in Conns :
       /\ \A c \in Conns :
            (/\ phase[d] = "none" /\ Accepted(d)'
             /\ InLedger(c) /\ req[c].requestId = req'[d].requestId)
            => /\ written'[c] = <<ErrorAnswer(ERROR_MESSAGES.REQUEST_SUPERSEDED)>>
               /\ ~InLedgerAfter(c)
       /\ \A m \in Messages :
            (/\ view
             /\ InLedger(d)
             /\ OrElse(OrElse(m.requestId, currentRequestId), activeRequestId)
                  = Str(req[d].requestId)
             /\ UNCHANGED <<now, view, gen, readyGens, phase>>
             /\ Commit(handleWebviewMessage(St, m)))
            => /\ Len(written'[d]) = 1
               /\ written'[d][1].status = 200
               /\ written'[d][1].body.action = (IF m.type = "submit" THEN "instruction" ELSE m.type)
               /\ written'[d][1].body.text = m.text]_vars

\* The first connection superseded and the second one answered by the human.
C4_Witness ==
  /\ MaxConn >= 2
  /\ req[1].requestId = req[2].requestId
  /\ written[1] = <<ErrorAnswer(ERROR_MESSAGES.REQUEST_SUPERSEDED)>>
  /\ Len(written[2]) = 1
  /\ written[2][1].body.action = "instruction"

\* C5: when a request is registered under an identifier, every earlier
\* accepted request with that identifier has had its terminal response written.
C5_SupersessionBeforeRegistration ==
  [][\A c \in Conns, d \in Conns :
       (/\ phase[c] # "registered" /\ phase'[c] = "registered"
        /\ d < c /\ Accepted(d) /\ req[d].requestId = req[c].requestId)
       => written'[d] # <<>>]_vars

\* C6: dispose writes the shutdown error answer once to each connection of
\* the ledger, cancels their timers, empties the ledger, and closes the
\* server only after these writes.
C6_ShutdownDraining ==
  [][(server = "listening" /\ server' = "null")
     => /\ \A i \in 1..Len(pendingRequests) :
             /\ written'[pendingRequests[i].res]
                  = <<ErrorAnswer(ERROR_MESSAGES.EXTENSION_DEACTIVATED)>>
             /\ pendingRequests[i].timer # 0
                  => timers'[pendingRequests[i].timer].state = "cleared"
        /\ pendingRequests' = <<>>
        /\ LET tr == dispose(St).trace
           IN /\ FirstIndex(tr, "close") # 0
              /\ \A i \in 1..Len(tr) :
                   tr[i].op = "end" => i < FirstIndex(tr, "close")]_vars

\* Dispose has drained a ledger of two entries.
C6_Witness ==
  /\ server = "null"
  /\ \E c \in Conns, d \in Conns :
       /\ c # d
       /\ written[c] = <<ErrorAnswer(ERROR_MESSAGES.EXTENSION_DEACTIVATED)>>
       /\ written[d] = <<ErrorAnswer(ERROR_MESSAGES.EXTENSION_DEACTIVATED)>>

\* C7: a request accepted with timeoutMinutes = 0 arms no timer and is never
\* resolved by a timeout.
C7_UnboundedTimeout ==
  \A c \in Conns :
    (Accepted(c) /\ req[c].timeoutMinutes = Num(0))
    => /\ timers[c].state = "none"
       /\ \A i \in 1..Len(written[c]) :
            written[c][i].body.error # ERROR_MESSAGES.REQUEST_TIMEOUT

\* C8: a registration with a positive effective timeout arms a timer for that
\* duration; the timer stays armed while the request is in the ledger and
\* fires no earlier than its due time; when it fires while its request is
\* still in the ledger, it writes the timeout error answer (empty text and
\* images) to that connection and removes the entry in the same step.
C8_TimeoutResolution ==
  [][\A c \in Conns :
       /\ (phase[c] # "registered" /\ phase'[c] = "registered"
           /\ EffectiveMinutes(req'[c]) > 0)
          => timers'[c] = [state |-> "armed",
                           due |-> now + EffectiveMinutes(req'[c]) * 60 * 1000]
       /\ (InLedger(c) /\ EffectiveMinutes(req[c]) > 0)
          => timers[c].state = "armed"
       /\ (timers[c].state = "armed" /\ timers'[c].state = "fired")
          => now >= timers[c].due
       /\ (timers[c].state = "armed" /\ timers'[c].state = "fired" /\ InLedger(c))
          => /\ written'[c] = <<ErrorAnswer(ERROR_MESSAGES.REQUEST_TIMEOUT)>>
             /\ ~InLedgerAfter(c)
             /\ Len(pendingRequests') = Len(pendingRequests) - 1]_vars

\* A request with the default timeout resolved by its timer.
C8_Witness ==
  \E c \in Conns :
    /\ req[c].timeoutMinutes = Undefined
    /\ timers[c].state = "fired"
    /\ written[c] = <<ErrorAnswer(ERROR_MESSAGES.REQUEST_TIMEOUT)>>
    /\ ~InLedger(c)

\* C9: a request without a usable requestId gets a generated non-empty
\* identifier, and two such requests get different identifiers.
C9_IdentifierDefaulting ==
  \A c \in Conns, d \in Conns :
    (Accepted(c) /\ req[c].defaulted)
    => /\ req[c].requestId # <<>>
       /\ (d # c /\ Accepted(d) /\ req[d].defaulted)
            => req[c].requestId # req[d].requestId

\* C10: a /request with an unparsable body or an invalid prompt gets status
\* 400 on its own connection; the ledger, the timers, activeRequestId and
\* every other connection stay as they are, and the notifier is not invoked.
C10_ValidationSideEffectFree ==
  [][\A c \in Conns :
       (phase[c] = "none" /\ phase'[c] = "rejected")
       => /\ Len(written'[c]) = 1
          /\ written'[c][1].status = 400
          /\ OthersUntouched(c)
          /\ UNCHANGED <<pendingRequests, timers, activeRequestId,
                         currentRequestId, posted, racers, wait, req>>
          /\ \A d \in Conns \ {c} : phase'[d] = phase[d]]_vars

\* A request rejected with 400 while another one is pending in the ledger.
C10_Witness ==
  \E c \in Conns, d \in Conns :
    /\ phase[c] = "rejected"
    /\ Len(written[c]) = 1
    /\ written[c][1].status = 400
    /\ written[c][1].body.error = "Invalid prompt field"
    /\ InLedger(d)
    /\ timers[d].state = "armed"

\* C12: when start() runs with BASE_PORT in use and a later port of the range
\* free, start() resolves with the first free port after BASE_PORT, the server
\* listens on that port, and that port is in the port file of every root.
C12_PortRetry ==
  ( /\ BASE_PORT \in inUse
    /\ Range \ inUse # {}
    /\ startPromise.state = "resolved"
    /\ server = "listening"
    /\ emitQueue = <<>> )
  => /\ startPromise.value = Min(Range \ inUse)
     /\ boundPort = startPromise.value
     /\ \A r \in Roots : portFiles[r] = toString(startPromise.value)

\* C13: start() rejects with the no-port error only after every port from
\* BASE_PORT to BASE_PORT + MAX_PORT_ATTEMPTS was tried in this allocation and
\* found in use; with a free port in that range the allocation succeeds.
C13_ExhaustionOnly ==
  (startPromise.state = "rejected" /\ startPromise.value = NO_PORT_ERROR)
  => /\ Range \subseteq triedPorts
     /\ Range \subseteq inUse

\* C14: from start() on, a port file that exists holds the port the server
\* is listening on: there is none before the bind nor after dispose(), and
\* all the port files that exist hold the same port.
C14_NoDanglingDescriptor ==
  startPromise.state # "none"
  => /\ \A r \in Roots :
          portFiles[r] # NoFile
          => /\ server = "listening"
             /\ portFiles[r] = toString(boundPort)
     /\ \A r1 \in Roots, r2 \in Roots :
          (portFiles[r1] # NoFile /\ portFiles[r2] # NoFile)
          => portFiles[r1] = portFiles[r2]

\* C11: a POST /request whose body exceeds MAX_REQUEST_BODY_SIZE gets status
\* 413 and one whose body read fails gets status 500; neither is registered,
\* the notifier is not invoked, and the other pending requests, their timers
\* and activeRequestId stay as they are.
C11_TransportFailureIsolation ==
  [][\A c \in Conns :
       (phase[c] = "none" /\ phase'[c] = "rejected" /\ written'[c][1].status # 400)
       => /\ IF bodySize'[c] > MAX_REQUEST_BODY_SIZE
             THEN received'[c] = <<[status |-> 413,
                                    body |-> StatusBody("Request body too large")]>>
             ELSE received'[c] = <<[status |-> 500,
                                    body |-> StatusBody("Request error")]>>
          /\ ~InLedgerAfter(c)
          /\ \A d \in Conns \ {c} : received'[d] = received[d]
          /\ UNCHANGED <<pendingRequests, timers, activeRequestId,
                         currentRequestId, posted, racers, wait, req>>
          /\ \A d \in Conns \ {c} : phase'[d] = phase[d]]_vars

C17_TempFileUniqueness ==
  \A f \in tempFiles, g \in tempFiles : f.name = g.name => f.by = g.by

\* C18: when the readiness wait of showPrompt times out and a view exists,
\* showPrompt still posts 'showPrompt' to the surface and neither resolves nor
\* fails the request, which stays pending for a later answer.
C18_OptimisticContinuation ==
  [][\A c \in Conns :
       (phase[c] = "race" /\ phase'[c] # "race" /\ wait[c] \notin readyGens' /\ view)
       => /\ c \in posted'
          /\ written'[c] = written[c]
          /\ InLedgerAfter(c)]_vars

\* C19: once the surface has signalled ready and has not been hidden since, a
\* readiness wait that starts succeeds at once; after the surface was hidden,
\* a wait that starts later succeeds only with a new ready signal; a repeated
\* ready signal has no effect.
C19_ReadinessLatchReset ==
  /\ [](\A c \in Conns : phase[c] = "race" => wait[c] \notin readyGens)
  /\ [](gen \in readyGens => ResumeAll(St, racers, gen) = St)
  /\ [][\A c \in Conns :
          /\ (phase[c] \in {"none", "focus"} /\ phase'[c] \in {"race", "registered"})
             => IF gen \in readyGens
                THEN phase'[c] = "registered" /\ (view => c \in posted')
                ELSE phase'[c] = "race" /\ wait'[c] = gen /\ c \notin posted'
          /\ (phase[c] = "race" /\ c \in posted')
             => wait[c] \in readyGens' \ readyGens]_vars

\* The surface signalled ready and was hidden, and a wait that started after
\* that is still waiting.
C19_Witness ==
  \E c \in Conns :
    /\ phase[c] = "race"
    /\ gen > 0
    /\ wait[c] = gen
    /\ readyGens # {}
    /\ gen \notin readyGens

\* The identifiers a caller of sendResponse may pass: those of the accepted
\* requests and one no request has
ExplicitIds == {Str(req[c].requestId) : c \in {d \in Conns : Accepted(d)}} \cup {Str(<<"z">>)}

\* C20: sendResponse(response, id) with id in pendingRequests writes the
\* response to that entry's connection only and removes that entry only; the
\* other entries, their timers and connections stay, and activeRequestId
\* changes only if it was id.  With an id that is not in pendingRequests
\* nothing is written and nothing changes.
C20_ExplicitIdRouting ==
  \A id \in ExplicitIds :
    LET response == Body("end", Absent, "", <<>>, id)
        s2 == sendResponse(St, response, id)
        Other(e) == e.key # id.v
    IN IF MapHas(pendingRequests, id.v)
       THEN LET c == MapGet(pendingRequests, id.v).res
            IN /\ s2.written[c] = IF written[c] = <<>>
                                  THEN <<[status |-> 200, body |-> response]>>
                                  ELSE written[c]
               /\ \A d \in Conns \ {c} :
                    /\ s2.written[d] = written[d]
                    /\ s2.timers[d] = timers[d]
               /\ s2.pendingRequests = SelectSeq(pendingRequests, Other)
               /\ s2.activeRequestId =
                    IF activeRequestId = id THEN Undefined ELSE activeRequestId
       ELSE s2 = St

\* A request answered under its own identifier while another request, the
\* active one, stays in the ledger with its timer armed.
C20_Witness ==
  \E c \in Conns, d \in Conns :
    /\ c # d
    /\ Len(written[c]) = 1
    /\ written[c][1].body.action = "end"
    /\ written[c][1].body.requestId = Str(req[c].requestId)
    /\ req[c].requestId # req[d].requestId
    /\ InLedger(d)
    /\ timers[d].state = "armed"
    /\ activeRequestId = Str(req[d].requestId)

\* An accepted request whose connection has not been answered
Outstanding(c) == Accepted(c) /\ ~Answered(c)

\* An answer without requestId, as sendResponse receives it
IdlessAnswer == Body("end", Absent, "", <<>>, Undefined)

\* C21: an answer without requestId is written to the connection of the entry
\* activeRequestId names and to no other; with two requests pending at once
\* it is never written to the connection of the one accepted earlier.
C21_IdlessFallback ==
  LET s2 == sendResponse(St, IdlessAnswer, Undefined)
  IN /\ \A c \in Conns :
          s2.written[c] # written[c]
          => /\ activeRequestId # Undefined
             /\ MapHas(pendingRequests, activeRequestId.v)
             /\ MapGet(pendingRequests, activeRequestId.v).res = c
     /\ \A c \in Conns, d \in Conns :
          (c < d /\ Outstanding(c) /\ Outstanding(d))
          => s2.written[c] = written[c]

\* A resolution attempt left the connections and the ledger as they were
NoOp(s2) == s2.written = written /\ s2.pendingRequests = pendingRequests

\* C22: once a request is resolved and no new request is registered under
\* its identifier, a further sendResponse for the identifier (explicit, or by
\* the fallback), a late firing of its timer and a further clearPendingRequest
\* write nothing and leave pendingRequests as it is; dispose writes nothing
\* more to its connection.
C22_IdempotentResolution ==
  \A c \in Conns :
    (/\ phase[c] = "registered"
     /\ Answered(c)
     /\ ~MapHas(pendingRequests, req[c].requestId))
    => LET id == req[c].requestId
       IN /\ NoOp(sendResponse(St, Body("end", Absent, "", <<>>, Str(id)), Str(id)))
          /\ activeRequestId = Str(id) => NoOp(sendResponse(St, IdlessAnswer, Undefined))
          /\ NoOp(TimeoutCallback(St, c))
          /\ NoOp(clearPendingRequest(St, id, TRUE,
                    createErrorResponse(ERROR_MESSAGES.REQUEST_SUPERSEDED)))
          /\ dispose(St).written[c] = written[c]

\* A request resolved by a human answer whose timer never fired, while another
\* request is still in the ledger.
C22_Witness ==
  \E c \in Conns, d \in Conns :
    /\ phase[c] = "registered"
    /\ Len(written[c]) = 1
    /\ written[c][1].body.action = "instruction"
    /\ ~MapHas(pendingRequests, req[c].requestId)
    /\ timers[c].state = "cleared"
    /\ InLedger(d)

\* Position of the first effect op on c in a trace, 0 when there is none
EffectIndex(tr, op, c) ==
  IF \E i \in 1..Len(tr) : tr[i] = [op |-> op, c |-> c]
  THEN Min({i \in 1..Len(tr) : tr[i] = [op |-> op, c |-> c]})
  ELSE 0

\* In a trace, the timer of entry e is cancelled and then its res is ended
CancelledThenEnded(tr, e) ==
  /\ EffectIndex(tr, "clearTimeout", e.timer) > 0
  /\ EffectIndex(tr, "end", e.res) > 0
  /\ EffectIndex(tr, "clearTimeout", e.timer) < EffectIndex(tr, "end", e.res)

\* C23: on the resolution paths other than the timeout (human answer through
\* sendResponse, supersession, dispose) the timer of the entry is cancelled
\* before the terminal payload is written to its connection.
C23_CancelThenResolve ==
  \A i \in 1..Len(pendingRequests) :
    LET e == pendingRequests[i]
    IN (e.timer # 0 /\ ~Answered(e.res))
       => /\ CancelledThenEnded(
               sendResponse(St, Body("end", Absent, "", <<>>, Str(e.key)), Str(e.key)).trace, e)
          /\ CancelledThenEnded(
               clearPendingRequest(St, e.key, TRUE,
                 createErrorResponse(ERROR_MESSAGES.REQUEST_SUPERSEDED)).trace, e)
          /\ CancelledThenEnded(dispose(St).trace, e)

\* C24: a request whose connection got its terminal payload by an answer, by
\* supersession or by shutdown has no armed timer.
C24_NoTimeoutAfterTermination ==
  \A c \in Conns :
    (/\ Answered(c)
     /\ written[c][1].status = 200
     /\ written[c][1] # ErrorAnswer(ERROR_MESSAGES.REQUEST_TIMEOUT))
    => timers[c].state # "armed"

\* A request with a timer was superseded: its timer is cancelled.
C24_Witness ==
  \E c \in Conns :
    /\ written[c] = <<ErrorAnswer(ERROR_MESSAGES.REQUEST_SUPERSEDED)>>
    /\ timers[c].state = "cleared"

\* C25: every entry of pendingRequests refers to a connection to which no
\* terminal payload has been written, and the step that writes the payload to
\* the connection of an entry removes that entry.
C25_LedgerHoldsUnresolved ==
  /\ [](\A i \in 1..Len(pendingRequests) : written[pendingRequests[i].res] = <<>>)
  /\ [][\A c \in Conns :
          (InLedger(c) /\ written'[c] # written[c]) => ~InLedgerAfter(c)]_vars

\* A request resolved by its timeout has left the ledger while another
\* request is still in it.
C25_Witness ==
  \E c \in Conns, d \in Conns :
    /\ written[c] = <<ErrorAnswer(ERROR_MESSAGES.REQUEST_TIMEOUT)>>
    /\ ~InLedger(c)
    /\ InLedger(d)
    /\ written[d] = <<>>

\* C26: within one allocation no port is passed to listen twice; the
\* candidates start at BASE_PORT and advance by one, and the successor of the
\* top of the range is BASE_PORT.
C26_NoPortRetried ==
  /\ \A i \in 1..Len(listeners), j \in 1..Len(listeners) :
       i # j => listeners[i] # listeners[j]
  /\ \A i \in 1..Len(listeners) : listeners[i] = BASE_PORT + i - 1
  /\ pendingListen # NoListen
       => triedPorts = {listeners[i] : i \in 1..Len(listeners)}
  /\ \A p \in Range :
       getNextPort(p) = IF p = BASE_PORT + MAX_PORT_ATTEMPTS THEN BASE_PORT ELSE p + 1

\* The allocation has moved on twice: listen is pending on BASE_PORT + 2.
C26_Witness ==
  /\ Len(listeners) = 3
  /\ pendingListen.port = BASE_PORT + 2
  /\ startPromise.state = "pending"

\* C27: a listen that fails with an error other than EADDRINUSE makes start()
\* reject with that error, no further port is tried and no port file is
\* written; a listen that fails with EADDRINUSE moves the allocation on to
\* the next candidate while attempts remain.
C27_FatalBindError ==
  /\ [][(pendingListen # NoListen /\ pendingListen' # pendingListen /\ server' = server)
        => IF pendingListen' = NoListen /\ startPromise'.value # NO_PORT_ERROR
           THEN /\ startPromise' = [state |-> "rejected", value |-> "EACCES"]
                /\ UNCHANGED <<listeners, triedPorts, portFiles, emitQueue>>
           ELSE /\ pendingListen.port \in inUse
                /\ IF pendingListen.attempt + 1 < MAX_PORT_ATTEMPTS
                   THEN /\ pendingListen'.port = pendingListen.port + 1
                        /\ listeners' = Append(listeners, pendingListen.port + 1)
                        /\ startPromise'.state = "pending"
                   ELSE startPromise' = [state |-> "rejected", value |-> NO_PORT_ERROR]]_vars
  /\ [](startPromise.state = "rejected"
        => /\ pendingListen = NoListen
           /\ emitQueue = <<>>
           /\ server # "listening"
           /\ \A r \in Roots : portFiles[r] = NoFile)

\* After one EADDRINUSE the listen on the next port failed with another
\* error: start() has rejected with it.
C27_Witness ==
  /\ startPromise = [state |-> "rejected", value |-> "EACCES"]
  /\ triedPorts = {BASE_PORT, BASE_PORT + 1}
  /\ \A r \in Roots : portFiles[r] = NoFile

\* C28: the timer armed when a request is registered writes the timeout
\* answer to the connection of that request only: when it fires, no other
\* connection is written to and no other request loses its ledger entry.
C28_TimerOwnRequestOnly ==
  [][\A c \in Conns :
       (timers[c].state = "armed" /\ timers'[c].state = "fired")
       => \A d \in Conns \ {c} :
            /\ written'[d] = written[d]
            /\ InLedger(d) => InLedgerAfter(d)]_vars

\* C29: once dispose() has run, pendingRequests is empty and no timer is
\* armed, in every later state: a handler that was suspended in the await of
\* the notifier when dispose() ran does not register afterwards.
C29_NothingRegistersAfterShutdown ==
  server = "null"
  => /\ pendingRequests = <<>>
     /\ \A c \in Conns : timers[c].state # "armed"

\* C30: whenever a request is pending in the ledger, an answer without
\* requestId resolves one of the pending requests; it is not dropped after
\* the request activeRequestId named was answered while an earlier one is
\* still pending.
C30_IdlessAnswerNotDropped ==
  pendingRequests # <<>>
  => \E c \in Conns :
       /\ InLedger(c)
       /\ sendResponse(St, IdlessAnswer, Undefined).written[c] # written[c]

\* C31: when the notifier of a validated /request fails, that connection is
\* sent an error status, and the ledger, the active identifier and every
\* other connection are as they were before the request arrived.
C31_NotifierFailureLeavesLedger ==
  \A c \in Conns, body \in Bodies :
    (/\ phase[c] = "none"
     /\ server = "listening"
     /\ EndHandler(St, c, body).phase[c] = "focus")
    => LET s2 == CatchHandler(EndHandler(St, c, body), c)
       IN /\ Len(s2.written[c]) = 1
          /\ s2.written[c][1].status >= 400
          /\ s2.pendingRequests = pendingRequests
          /\ s2.activeRequestId = activeRequestId
          /\ \A d \in Conns \ {c} : s2.written[d] = written[d]

\* C32: a ready signal for the current latch releases every readiness wait
\* still in progress, the waits that began before the latch was reset
\* included.
C32_WaiterSurvivesReset ==
  [][\A c \in Conns :
       (phase[c] = "race" /\ gen \in readyGens' \ readyGens)
       => phase'[c] # "race"]_vars

\* ------------------------------------------------- start() called again
\* start() on an instance whose earlier start() has settled, after dispose()
\* or after a failed start: the port files are cleaned up, a new server
\* object replaces the old one, and the scan begins at BASE_PORT with
\* attempt 0.  triedPorts is a field of the instance that nothing clears.
Restart ==
  /\ \/ startPromise.state = "resolved" /\ server = "null"
     \/ startPromise.state = "rejected"
  /\ pendingListen = NoListen
  /\ emitQueue = <<>>
  /\ portFiles' = cleanupAllPortFiles(portFiles)
  /\ server' = "created"
  /\ CommitAlloc(tryListen([Alloc EXCEPT !.startPromise = [state |-> "pending", value |-> 0],
                                         !.listeners = <<>>],
                           BASE_PORT, 0))
  /\ UNCHANGED <<bridgeVars, inUse, port, boundPort, emitQueue>>

RestartNext ==
  \/ AllocNext
  \/ Restart

RestartSpec == AllocInit /\ [][RestartNext]_vars

\* C33: a start() after dispose() or after a failed start scans afresh: it
\* issues its first listen on BASE_PORT with attempt 0, whatever ports an
\* earlier start() tried.
C33_RestartAllocatesAfresh ==
  [][(startPromise.state \in {"resolved", "rejected"} /\ server' = "created"
      /\ startPromise' # startPromise)
     => /\ pendingListen' = [port |-> BASE_PORT, attempt |-> 0]
        /\ startPromise'.state = "pending"]_vars

\* ------------------------------------- _handleSubmit, overflow write fails
\* The webview posts 'submit' with a text longer than LONG_TEXT_THRESHOLD and
\* fs.writeFileSync of the overflow text file throws: the statement is in no
\* try block, so _handleSubmit ends with the exception after the image loop
\* and before _onUserResponse.fire.
SubmitTextWriteFails ==
  /\ SubmitCount < MaxSubmits
  /\ \E text \in Texts, images \in ImageLists, uniqueId \in UniqueIds,
        requestId \in {Undefined, Str(<<"a">>)} :
       \E fails \in SUBSET (0..(Len(images) - 1)) :
         /\ Len(text) > LONG_TEXT_THRESHOLD
         /\ submitted' = [type |-> "submit", n |-> SubmitCount + 1, text |-> text,
                          images |-> images, requestId |-> requestId,
                          uniqueId |-> uniqueId, fails |-> fails]
         /\ tempFiles' = tempFiles \cup
                           {[name |-> f.name, content |-> f.content,
                             by |-> SubmitCount + 1] :
                              f \in SubmitFiles(Chars(0), images, uniqueId, fails)}
         /\ fired' = <<>>
  /\ UNCHANGED <<now, phase, req, wait, written, timers, pendingRequests,
                 activeRequestId, server, view, currentRequestId, gen, readyGens,
                 posted, racers, bodySize, destroyed, received, allocVars,
                 portFiles>>

SubmitFailNext ==
  \/ Submit
  \/ SubmitTextWriteFails

SubmitFailSpec == Init /\ [][SubmitFailNext]_vars

\* C34: every 'submit' handled by _handleSubmit fires exactly one answer,
\* with action 'instruction' and the request's identifier, whichever writes
\* of temporary files fail.
C34_OneAnswerPerSubmit ==
  submitted # NoSubmit
  => /\ Len(fired) = 1
     /\ fired[1].action = "instruction"
     /\ fired[1].requestId = submitted.requestId

====
